---- MODULE Spec2Model ----
(***************************************************************************)
(* Model of readease.py: the paginated Wikipedia query generator           *)
(* (iterwikiquery), the text helpers, collectextracts,                     *)
(* checkcategoryexists and the ranking done by ReadEase.getreadease.       *)
(*                                                                         *)
(* Python values are modelled as follows.  A dict is a function whose      *)
(* DOMAIN is its key set, so `"k" in d` is `"k" \in DOMAIN d`.  A value    *)
(* that may be None is None == {} or Some(v) == {v}.  A text is a sequence *)
(* of one-character strings.                                               *)
(***************************************************************************)
EXTENDS Integers, Sequences, FiniteSets, TLC

VARIABLES
    pc,             \* position of the request thread inside getreadease
    catname,        \* getreadease's (escaped) argument
    result,         \* collectextracts' local list of tuples
    resultlist,     \* getreadease's local: None until collectextracts returned
    queryresults,   \* checkcategoryexists' local list
    categoryexists, \* checkcategoryexists' return value: None until it returned
    body,           \* getreadease's rendered body
    exc,            \* the exception in flight ("" when there is none)
    log,            \* number of logging.warning calls, per call site
    gpc,            \* position of the iterwikiquery generator frame
    params,         \* the generator's argument (the caller's dict)
    continueparams, \* the generator's local
    nextparams,     \* the generator's local
    yieldval,       \* the value handed to the consumer by the last yield
    lastresp,       \* history: outcome of the latest physical exchange
    numrequests,    \* history: httpget calls made by this generator
    numresponses,   \* history: httpget calls that have come back (or raised)
    numconts,       \* history: error-free decoded responses that carried "continue"
    yielded,        \* history: the values yielded by this generator, in order
    received,       \* history: the "query" values of the error-free responses, in order
    pullrequests,   \* history: httpget calls made since the consumer last resumed the generator
    pullskipped,    \* history: responses without "query" handled since then
    textin,         \* the argument of a stand-alone call of getfirstparagraph
    textout,        \* its return value: None until it returned
    textfed         \* history: textin is the return value of an earlier call

gvars == <<gpc, params, continueparams, nextparams, yieldval>>
hvars == <<lastresp, numrequests, numresponses, numconts, yielded, received,
           pullrequests, pullskipped>>
avars == <<pc, catname, result, resultlist, queryresults, categoryexists, body, exc, log>>
tvars == <<textin, textout, textfed>>
vars == <<avars, gvars, hvars, tvars>>

(***************************************************************************)
(* Bounds                                                                  *)
(***************************************************************************)
\* the remote service answers at most this many physical requests of one
\* logical query with a "continue" field still pending
MaxRequests == 2

\* the longest text handed to getfirstparagraph on its own
MaxTextLen == 4

(***************************************************************************)
(* Python's None and dicts                                                 *)
(***************************************************************************)
None == {}
Some(v) == {v}
Val(opt) == CHOOSE v \in opt : TRUE

EmptyDict == <<>>
Field(name, opt) == IF opt = None THEN EmptyDict ELSE (name :> Val(opt))

\* all orders in which a dict with key set S may be iterated
Orders(S) == {o \in [1..Cardinality(S) -> S] : \A k \in S : \E i \in DOMAIN o : o[i] = k}

(***************************************************************************)
(* The remote service: what one physical exchange may produce              *)
(***************************************************************************)
CatNames == {"Physics"}

\* the values of "continue": the empty dict, a key the caller does not pass
\* and a key the caller passes too
ContMaps == {EmptyDict, [continue |-> "c1"], [action |-> "c1"]}

eFull == [title |-> "T", extract |-> <<"a", "\n", "b">>]
eEmpty == [title |-> "T", extract |-> <<>>]
eBlank == [title |-> "T", extract |-> <<" ", "\n", "a">>]
eNoExtract == [title |-> "T"]
eNoTitle == [extract |-> <<"a", "\n", "b">>]
eMissing == [title |-> "T", missing |-> ""]

\* the values of "query" in the answers to collectextracts' query
ExtractPayloads ==
    { EmptyDict,
      [pages |-> EmptyDict],
      [pages |-> ("1" :> eFull)],
      [pages |-> ("1" :> eEmpty @@ "2" :> eFull)],
      [pages |-> ("1" :> eNoExtract @@ "2" :> eBlank)],
      [pages |-> ("1" :> eNoTitle)] }

\* the values of "query" in the answers to checkcategoryexists' query
TitlePayloads ==
    { EmptyDict,
      [pages |-> EmptyDict],
      [pages |-> ("-1" :> eMissing)],
      [pages |-> ("7" :> eNoExtract)],
      [pages |-> ("-1" :> eMissing @@ "7" :> eNoExtract)] }

PayloadsFor(p) == IF "titles" \in DOMAIN p THEN TitlePayloads ELSE ExtractPayloads

\* the decoded bodies without "error": each other top-level field is optional
OkResults(p) ==
    { Field("warning", w) @@ Field("continue", c) @@ Field("query", q) :
        w \in {None, Some("W")},
        c \in {None} \cup {Some(m) : m \in ContMaps},
        q \in {None} \cup {Some(x) : x \in PayloadsFor(p)} }

\* the decoded bodies with "error", with and without each other field
ErrorResults ==
    { ("error" :> "E") @@ Field("warning", w) @@ Field("continue", c) @@ Field("query", q) :
        w \in {None, Some("W")},
        c \in {None, Some([continue |-> "c1"])},
        q \in {None, Some([pages |-> ("1" :> eFull)])} }

JsonResults(p) == OkResults(p) \cup ErrorResults

\* what textstat.flesch_reading_ease may do with a text
Scores == {10, 30}
FresOutcomes == {[raises |-> TRUE]} \cup {[raises |-> FALSE, value |-> s] : s \in Scores}

(***************************************************************************)
(* Pure helpers                                                            *)
(***************************************************************************)
\* Merge with the precedence reversed: the caller's value wins
Merge_callerwins(p, cont) ==
    [k \in (DOMAIN p) \cup (DOMAIN cont) |-> IF k \in DOMAIN p THEN p[k] ELSE cont[k]]

\* dict.copy() followed by dict.update(cont)
Merge(p, cont) ==
    [k \in (DOMAIN p) \cup (DOMAIN cont) |-> IF k \in DOMAIN cont THEN cont[k] ELSE p[k]]

\* the initial value of continueparams
StartContinue == Some("continue" :> "")

\* LoopCondition as `while continueparams:` (an empty dict is false)
LoopCondition_truthy(cp) == cp # None /\ Val(cp) # EmptyDict

\* `while continueparams is not None`
LoopCondition(cp) == cp # None

\* HasError looking for "error" only in a response without results
HasError_noquery(r) == "error" \in DOMAIN r /\ "query" \notin DOMAIN r

\* HasError taking a warning for an error
HasError_orwarning(r) == "error" \in DOMAIN r \/ "warning" \in DOMAIN r

\* `"error" in result`
HasError(r) == "error" \in DOMAIN r

\* `"warning" in result`
HasWarning(r) == "warning" \in DOMAIN r

\* NextContinue as result.get("continue", {})
NextContinue_default(r) == IF "continue" \notin DOMAIN r THEN Some(EmptyDict) ELSE Some(r["continue"])

\* NextContinue taking an empty "continue" for the end of the results
NextContinue_emptyisnone(r) ==
    IF "continue" \notin DOMAIN r \/ r["continue"] = EmptyDict THEN None ELSE Some(r["continue"])

\* the value assigned to continueparams from a decoded response
NextContinue(r) == IF "continue" \notin DOMAIN r THEN None ELSE Some(r["continue"])

\* HasQuery yielding only from a response that has more to come
HasQuery_ifcontinue(r) == "query" \in DOMAIN r /\ "continue" \in DOMAIN r

\* HasQuery yielding only from the last response
HasQuery_iflast(r) == "query" \in DOMAIN r /\ "continue" \notin DOMAIN r

\* `"query" in result`
HasQuery(r) == "query" \in DOMAIN r

IsSpace(c) == c \in {" ", "\n"}

RECURSIVE lstrip(_)
lstrip(s) == IF s # <<>> /\ IsSpace(Head(s)) THEN lstrip(Tail(s)) ELSE s

RECURSIVE rstrip(_)
rstrip(s) == IF s # <<>> /\ IsSpace(s[Len(s)]) THEN rstrip(SubSeq(s, 1, Len(s) - 1)) ELSE s

\* str.strip()
strip(s) == rstrip(lstrip(s))

\* getfirstparagraph cutting at the last newline (rsplit)
getfirstparagraph_last(extract) ==
    IF \E i \in DOMAIN extract : extract[i] = "\n"
    THEN SubSeq(extract, 1, (CHOOSE i \in DOMAIN extract :
                                /\ extract[i] = "\n"
                                /\ \A j \in (i + 1)..Len(extract) : extract[j] # "\n") - 1)
    ELSE extract

\* extract.split("\n", 1)[0]
getfirstparagraph(extract) ==
    IF \E i \in DOMAIN extract : extract[i] = "\n"
    THEN SubSeq(extract, 1, (CHOOSE i \in DOMAIN extract :
                                /\ extract[i] = "\n"
                                /\ \A j \in 1..(i - 1) : extract[j] # "\n") - 1)
    ELSE extract

\* trygetreadingease without the test for an empty stripped text
trygetreadingease_noguard(extract, fres) ==
    IF fres.raises THEN None ELSE Some(fres.value)

\* fres is what textstat.flesch_reading_ease does when it is called
trygetreadingease(extract, fres) ==
    IF Len(strip(extract)) = 0 THEN None
    ELSE IF fres.raises THEN None
    ELSE Some(fres.value)

\* does trygetreadingease(extract) log its warning?
FresWarns(extract, fres) == Len(strip(extract)) # 0 /\ fres.raises

\* PageTuple built from the whole extract instead of its first paragraph
PageTuple_wholeextract(k, v, fres) ==
    <<k, v.title, v.extract, trygetreadingease(v.extract, fres)>>

\* the tuple appended for page k with entry v
PageTuple(k, v, fres) ==
    <<k, v.title, getfirstparagraph(v.extract), trygetreadingease(getfirstparagraph(v.extract), fres)>>

\* `if "extract" in v`
CarriesExtract(v) == "extract" \in DOMAIN v

\* the inner for loop of collectextracts over one fragment, its items taken
\* in order o: the first position whose body raises KeyError (0 if none)
FirstKeyError(pages, o) ==
    LET bad == {i \in DOMAIN o : CarriesExtract(pages[o[i]]) /\ "title" \notin DOMAIN pages[o[i]]}
    IN  IF bad = {} THEN 0 ELSE CHOOSE i \in bad : \A j \in bad : i <= j

\* FragmentTuples without the `"extract" in v` test, a missing extract read as ""
FragmentTuples_nofilter(pages, o, fres, n) ==
    [i \in 1..n |->
        IF "extract" \in DOMAIN pages[o[i]]
        THEN <<o[i], pages[o[i]].title, getfirstparagraph(pages[o[i]].extract),
               trygetreadingease(getfirstparagraph(pages[o[i]].extract), fres[o[i]])>>
        ELSE <<o[i], pages[o[i]].title, <<>>, None>>]

RECURSIVE FragmentTuples(_, _, _, _)
\* the tuples appended by the first n items
FragmentTuples(pages, o, fres, n) ==
    IF n = 0 THEN <<>>
    ELSE LET k == o[n]
             rest == FragmentTuples(pages, o, fres, n - 1)
         IN  IF CarriesExtract(pages[k])
             THEN Append(rest, PageTuple(k, pages[k], fres[k]))
             ELSE rest

RECURSIVE FragmentWarnings(_, _, _, _)
\* the warnings logged by trygetreadingease over the first n items
FragmentWarnings(pages, o, fres, n) ==
    IF n = 0 THEN 0
    ELSE LET k == o[n]
             rest == FragmentWarnings(pages, o, fres, n - 1)
         IN  IF CarriesExtract(pages[k]) /\ FresWarns(getfirstparagraph(pages[k].extract), fres[k])
             THEN rest + 1
             ELSE rest

\* filter(lambda t: t[3] is not None, resultlist)
scoredresults(rl) == SelectSeq(rl, LAMBDA t : t[4] # None)

\* InsertByScore putting t before its equals
InsertByScore_before(s, t) ==
    LET n == Cardinality({i \in DOMAIN s : Val(s[i][4]) < Val(t[4])})
    IN  SubSeq(s, 1, n) \o <<t>> \o SubSeq(s, n + 1, Len(s))

\* list.insert so that the list stays sorted by key and t goes after its equals
InsertByScore(s, t) ==
    LET n == Cardinality({i \in DOMAIN s : Val(s[i][4]) <= Val(t[4])})
    IN  SubSeq(s, 1, n) \o <<t>> \o SubSeq(s, n + 1, Len(s))

RECURSIVE sortedresults(_)
\* sorted(scoredresults, key = lambda t : t[3]): a stable ascending sort
sortedresults(s) ==
    IF s = <<>> THEN <<>>
    ELSE InsertByScore(sortedresults(SubSeq(s, 1, Len(s) - 1)), s[Len(s)])

tableheader == <<"Page ID", "Title", "First paragraph", "Flesch Reading Ease Score">>

\* the body of the else branch of getreadease
TableBody(rl) == [kind |-> "table", rows |-> <<tableheader>> \o sortedresults(scoredresults(rl))]

NoSuchBody(c) == [kind |-> "nosuch", catname |-> c]

\* ErrorBody rendering what was collected before the failure
ErrorBody_partial(c, e) == [kind |-> "table", rows |-> <<tableheader>> \o sortedresults(scoredresults(result))]

\* the body of the except branch of getreadease
ErrorBody(c, e) == [kind |-> "error", catname |-> c, e |-> e]

CategoryTitle(c) == <<"Category:", c>>

\* the dict collectextracts passes to iterwikiquery
CollectParams(c) ==
    [action |-> "query", prop |-> "extracts", explaintext |-> "true", exsentences |-> "10",
     exlimit |-> "max", generator |-> "categorymembers", gcmtitle |-> CategoryTitle(c),
     gcmtype |-> "page", gcmlimit |-> "50", format |-> "json"]

\* the dict checkcategoryexists passes to iterwikiquery
ExistsParams(c) == [action |-> "query", titles |-> CategoryTitle(c), format |-> "json"]

\* ExistsResult with the test inverted
ExistsResult_inverted(v) == "missing" \in DOMAIN v

\* the value checkcategoryexists returns when values()[0] is v
ExistsResult(v) == "missing" \notin DOMAIN v

\* NeedsExistsCheck when checkcategoryexists is called for every category
NeedsExistsCheck_always(rl) == TRUE

\* `len(resultlist) == 0`: only then is checkcategoryexists called
NeedsExistsCheck(rl) == Len(rl) = 0

(***************************************************************************)
(* The generator frame of iterwikiquery                                    *)
(***************************************************************************)
\* calling iterwikiquery(server, url, p) creates a generator that has not run yet
NewGenerator(p) ==
    /\ gpc' = "start"
    /\ params' = p
    /\ continueparams' = StartContinue
    /\ nextparams' = EmptyDict
    /\ yieldval' = EmptyDict
    /\ lastresp' = [kind |-> "none"]
    /\ numrequests' = 0
    /\ numresponses' = 0
    /\ numconts' = 0
    /\ yielded' = <<>>
    /\ received' = <<>>
    /\ pullrequests' = 0
    /\ pullskipped' = 0

\* the consumer's next(): the frame runs on from where it was suspended
Resume ==
    /\ gpc' = "loop"
    /\ pullrequests' = 0
    /\ pullskipped' = 0
    /\ UNCHANGED <<params, continueparams, nextparams, yieldval>>
    /\ UNCHANGED <<lastresp, numrequests, numresponses, numconts, yielded, received>>

\* Request updating the caller's mapping in place (no copy.copy)
Request_nocopy ==
    /\ UNCHANGED tvars
    /\ gpc = "loop"
    /\ LoopCondition(continueparams)
    /\ nextparams' = Merge(params, Val(continueparams))
    /\ params' = nextparams'
    /\ gpc' = "httpget"
    /\ numrequests' = numrequests + 1
    /\ pullrequests' = pullrequests + 1
    /\ UNCHANGED <<continueparams, yieldval>>
    /\ UNCHANGED <<lastresp, numresponses, numconts, yielded, received, pullskipped>>
    /\ UNCHANGED avars

\* the loop test succeeds: build nextparams and call httpget
Request ==
    /\ UNCHANGED tvars
    /\ gpc = "loop"
    /\ LoopCondition(continueparams)
    /\ nextparams' = Merge(params, Val(continueparams))
    /\ gpc' = "httpget"
    /\ numrequests' = numrequests + 1
    /\ pullrequests' = pullrequests + 1
    /\ UNCHANGED <<params, continueparams, yieldval>>
    /\ UNCHANGED <<lastresp, numresponses, numconts, yielded, received, pullskipped>>
    /\ UNCHANGED avars

\* the loop test fails: the generator returns and next() raises StopIteration
StopIteration ==
    /\ UNCHANGED tvars
    /\ gpc = "loop"
    /\ ~LoopCondition(continueparams)
    /\ gpc' = "done"
    /\ UNCHANGED <<params, continueparams, nextparams, yieldval>>
    /\ UNCHANGED hvars
    /\ UNCHANGED avars

\* an exception e leaves the generator, collectextracts or
\* checkcategoryexists: nothing below getreadease catches it, so control
\* reaches `except Exception as e` of getreadease
Raise(e) ==
    /\ exc' = e
    /\ body' = ErrorBody(catname, e)
    /\ pc' = "rendered"
    /\ UNCHANGED <<catname, result, resultlist, queryresults, categoryexists>>

\* httpget raises (status other than 200, or a connection failure)
TransportFails ==
    /\ UNCHANGED tvars
    /\ gpc = "httpget"
    /\ gpc' = "raised"
    /\ Raise("TransportError")
    /\ UNCHANGED log
    /\ lastresp' = [kind |-> "transport"]
    /\ numresponses' = numresponses + 1
    /\ UNCHANGED <<params, continueparams, nextparams, yieldval>>
    /\ UNCHANGED <<numrequests, numconts, yielded, received, pullrequests, pullskipped>>

\* DecodeFails logging the raw body and going round the loop again
DecodeFails_swallow ==
    /\ UNCHANGED tvars
    /\ gpc = "httpget"
    /\ numrequests < MaxRequests
    /\ gpc' = "loop"
    /\ log' = [log EXCEPT !.decode = @ + 1]
    /\ lastresp' = [kind |-> "undecodable"]
    /\ numresponses' = numresponses + 1
    /\ UNCHANGED <<pc, catname, result, resultlist, queryresults, categoryexists, body, exc>>
    /\ UNCHANGED <<params, continueparams, nextparams, yieldval>>
    /\ UNCHANGED <<numrequests, numconts, yielded, received, pullrequests, pullskipped>>

\* json.loads raises: the raw body is logged and the exception re-raised
DecodeFails ==
    /\ UNCHANGED tvars
    /\ gpc = "httpget"
    /\ gpc' = "raised"
    /\ log' = [log EXCEPT !.decode = @ + 1]
    /\ Raise("DecodeError")
    /\ lastresp' = [kind |-> "undecodable"]
    /\ numresponses' = numresponses + 1
    /\ UNCHANGED <<params, continueparams, nextparams, yieldval>>
    /\ UNCHANGED <<numrequests, numconts, yielded, received, pullrequests, pullskipped>>

\* the remote service of the model announces more results (an error-free
\* response with "continue") only while fewer than MaxRequests requests were made
Answers ==
    {r \in JsonResults(nextparams) :
        ("continue" \in DOMAIN r /\ "error" \notin DOMAIN r) => numrequests < MaxRequests}

\* Decoded logging the warning before it tests for the error
Decoded_warnfirst(r) ==
    /\ UNCHANGED tvars
    /\ gpc = "httpget"
    /\ lastresp' = [kind |-> "json", result |-> r]
    /\ numresponses' = numresponses + 1
    /\ numconts' = IF "error" \notin DOMAIN r /\ "continue" \in DOMAIN r THEN numconts + 1 ELSE numconts
    /\ received' = IF "error" \notin DOMAIN r /\ "query" \in DOMAIN r
                   THEN Append(received, r.query) ELSE received
    /\ pullskipped' = IF "query" \notin DOMAIN r THEN pullskipped + 1 ELSE pullskipped
    /\ log' = IF HasWarning(r) THEN [log EXCEPT !.warning = @ + 1] ELSE log
    /\ IF HasError(r)
       THEN /\ gpc' = "raised"
            /\ Raise("RemoteError")
            /\ UNCHANGED <<continueparams, yieldval, yielded>>
       ELSE /\ continueparams' = NextContinue(r)
            /\ IF HasQuery(r)
               THEN /\ gpc' = "yield"
                    /\ yieldval' = r.query
                    /\ yielded' = Append(yielded, r.query)
               ELSE /\ gpc' = "loop"
                    /\ UNCHANGED <<yieldval, yielded>>
            /\ UNCHANGED <<pc, catname, result, resultlist, queryresults, categoryexists, body, exc>>
    /\ UNCHANGED <<params, nextparams, numrequests, pullrequests>>

\* httpget returns a body that decodes to r: the rest of the loop body
Decoded(r) ==
    /\ UNCHANGED tvars
    /\ gpc = "httpget"
    /\ lastresp' = [kind |-> "json", result |-> r]
    /\ numresponses' = numresponses + 1
    /\ numconts' = IF "error" \notin DOMAIN r /\ "continue" \in DOMAIN r THEN numconts + 1 ELSE numconts
    /\ received' = IF "error" \notin DOMAIN r /\ "query" \in DOMAIN r
                   THEN Append(received, r.query) ELSE received
    /\ pullskipped' = IF "query" \notin DOMAIN r THEN pullskipped + 1 ELSE pullskipped
    /\ IF HasError(r)
       THEN /\ gpc' = "raised"
            /\ Raise("RemoteError")
            /\ UNCHANGED <<continueparams, yieldval, yielded, log>>
       ELSE /\ log' = IF HasWarning(r) THEN [log EXCEPT !.warning = @ + 1] ELSE log
            /\ continueparams' = NextContinue(r)
            /\ IF HasQuery(r)
               THEN /\ gpc' = "yield"
                    /\ yieldval' = r.query
                    /\ yielded' = Append(yielded, r.query)
               ELSE /\ gpc' = "loop"
                    /\ UNCHANGED <<yieldval, yielded>>
            /\ UNCHANGED <<pc, catname, result, resultlist, queryresults, categoryexists, body, exc>>
    /\ UNCHANGED <<params, nextparams, numrequests, pullrequests>>

Response == \E r \in Answers : Decoded(r)

(***************************************************************************)
(* getreadease, collectextracts and checkcategoryexists                    *)
(***************************************************************************)
Init ==
    /\ pc = "idle"
    /\ catname = ""
    /\ result = <<>>
    /\ resultlist = None
    /\ queryresults = <<>>
    /\ categoryexists = None
    /\ body = [kind |-> "none"]
    /\ exc = ""
    /\ log = [warning |-> 0, decode |-> 0, fres |-> 0]
    /\ gpc = "none"
    /\ params = EmptyDict
    /\ continueparams = None
    /\ nextparams = EmptyDict
    /\ yieldval = EmptyDict
    /\ lastresp = [kind |-> "none"]
    /\ numrequests = 0
    /\ numresponses = 0
    /\ numconts = 0
    /\ yielded = <<>>
    /\ received = <<>>
    /\ pullrequests = 0
    /\ pullskipped = 0
    /\ textin = <<>>
    /\ textout = None
    /\ textfed = FALSE

\* a request for /getreadease?catname=c enters collectextracts
GetReadEase(c) ==
    /\ UNCHANGED tvars
    /\ pc = "idle"
    /\ pc' = "collect"
    /\ catname' = c
    /\ result' = <<>>
    /\ NewGenerator(CollectParams(c))
    /\ UNCHANGED <<resultlist, queryresults, categoryexists, body, exc, log>>

\* the first next() of a for loop or of list() on a fresh generator
FirstPull ==
    /\ UNCHANGED tvars
    /\ pc \in {"collect", "exists"}
    /\ gpc = "start"
    /\ Resume
    /\ UNCHANGED avars

\* one pass through the body of `for resultpage in extresults`, its dict
\* iterated in order o and textstat behaving as fres, then the next next()
CollectBody(o, fres) ==
    /\ UNCHANGED tvars
    /\ pc = "collect"
    /\ gpc = "yield"
    /\ "pages" \in DOMAIN yieldval
    /\ FirstKeyError(yieldval.pages, o) = 0
    /\ result' = result \o FragmentTuples(yieldval.pages, o, fres, Len(o))
    /\ log' = [log EXCEPT !.fres = @ + FragmentWarnings(yieldval.pages, o, fres, Len(o))]
    /\ Resume
    /\ UNCHANGED <<pc, catname, resultlist, queryresults, categoryexists, body, exc>>

\* the same pass when resultpage["pages"] or v["title"] raises KeyError
CollectBodyRaises(o, fres) ==
    /\ UNCHANGED tvars
    /\ pc = "collect"
    /\ gpc = "yield"
    /\ IF "pages" \notin DOMAIN yieldval
       THEN UNCHANGED <<result, log>>
       ELSE LET n == FirstKeyError(yieldval.pages, o)
            IN  /\ n # 0
                /\ result' = result \o FragmentTuples(yieldval.pages, o, fres, n - 1)
                /\ log' = [log EXCEPT !.fres = @ + FragmentWarnings(yieldval.pages, o, fres, n - 1)]
    /\ exc' = "KeyError"
    /\ body' = ErrorBody(catname, "KeyError")
    /\ pc' = "rendered"
    /\ UNCHANGED <<catname, resultlist, queryresults, categoryexists>>
    /\ UNCHANGED gvars
    /\ UNCHANGED hvars

CollectStep ==
    \E o \in Orders(IF "pages" \in DOMAIN yieldval THEN DOMAIN yieldval.pages ELSE {}) :
        \E fres \in [DOMAIN o -> FresOutcomes] :
            LET f == [k \in {o[i] : i \in DOMAIN o} |-> fres[CHOOSE i \in DOMAIN o : o[i] = k]]
            IN  CollectBody(o, f) \/ CollectBodyRaises(o, f)

\* the for loop ends: collectextracts returns result; getreadease either
\* renders the table or, for an empty list, enters checkcategoryexists
CollectReturns ==
    /\ UNCHANGED tvars
    /\ pc = "collect"
    /\ gpc = "done"
    /\ resultlist' = Some(result)
    /\ IF NeedsExistsCheck(result)
       THEN /\ pc' = "exists"
            /\ queryresults' = <<>>
            /\ NewGenerator(ExistsParams(catname))
            /\ UNCHANGED body
       ELSE /\ pc' = "rendered"
            /\ body' = TableBody(result)
            /\ UNCHANGED queryresults
            /\ UNCHANGED gvars
            /\ UNCHANGED hvars
    /\ UNCHANGED <<catname, result, categoryexists, exc, log>>

\* list() appends the yielded value and calls next() again
ListAppend ==
    /\ UNCHANGED tvars
    /\ pc = "exists"
    /\ gpc = "yield"
    /\ queryresults' = Append(queryresults, yieldval)
    /\ Resume
    /\ UNCHANGED <<pc, catname, result, resultlist, categoryexists, body, exc, log>>

\* the entries among which `queryresult["pages"].values()[0]` picks
FirstValues(queryresult) == {queryresult.pages[k] : k \in DOMAIN queryresult.pages}

\* ExistsFailure without the assert statement
ExistsFailure_noassert(qr) ==
    IF Len(qr) = 0 THEN "IndexError"
    ELSE IF "pages" \notin DOMAIN qr[1] THEN "KeyError"
    ELSE IF DOMAIN qr[1].pages = {} THEN "IndexError"
    ELSE ""

\* the exception the tail of checkcategoryexists raises ("" if none)
ExistsFailure(qr) ==
    IF Len(qr) # 1 THEN "AssertionError"
    ELSE IF "pages" \notin DOMAIN qr[1] THEN "KeyError"
    ELSE IF DOMAIN qr[1].pages = {} THEN "IndexError"
    ELSE ""

\* list() is complete: the rest of checkcategoryexists raises
ExistsRaises ==
    /\ UNCHANGED tvars
    /\ pc = "exists"
    /\ gpc = "done"
    /\ ExistsFailure(queryresults) # ""
    /\ Raise(ExistsFailure(queryresults))
    /\ UNCHANGED log
    /\ UNCHANGED gvars
    /\ UNCHANGED hvars

\* list() is complete: checkcategoryexists returns and getreadease renders
ExistsReturns ==
    /\ UNCHANGED tvars
    /\ pc = "exists"
    /\ gpc = "done"
    /\ ExistsFailure(queryresults) = ""
    /\ \E v \in FirstValues(queryresults[1]) :
          /\ categoryexists' = Some(ExistsResult(v))
          /\ body' = IF NeedsExistsCheck(Val(resultlist)) /\ ~ExistsResult(v)
                     THEN NoSuchBody(catname)
                     ELSE TableBody(Val(resultlist))
    /\ pc' = "rendered"
    /\ UNCHANGED <<catname, result, resultlist, queryresults, exc, log>>
    /\ UNCHANGED gvars
    /\ UNCHANGED hvars

Next ==
    \/ \E c \in CatNames : GetReadEase(c)
    \/ FirstPull
    \/ Request
    \/ StopIteration
    \/ TransportFails
    \/ DecodeFails
    \/ Response
    \/ CollectStep
    \/ CollectReturns
    \/ ListAppend
    \/ ExistsRaises
    \/ ExistsReturns

Spec == Init /\ [][Next]_vars

\* the handler is one sequential thread and httpget blocks until the remote
\* answers or the transport fails: a step that can be taken is taken
FairSpec == Spec /\ WF_vars(Next)

(***************************************************************************)
(* getfirstparagraph called on its own                                     *)
(***************************************************************************)
\* the characters of the texts: a letter, a blank and the newline
Chars == {"a", " ", "\n"}

\* the arguments getfirstparagraph is called with
Texts == UNION {[1..n -> Chars] : n \in 0..MaxTextLen}

\* no request is being handled; the argument is any text
TextInit ==
    /\ pc = "idle"
    /\ catname = ""
    /\ result = <<>>
    /\ resultlist = None
    /\ queryresults = <<>>
    /\ categoryexists = None
    /\ body = [kind |-> "none"]
    /\ exc = ""
    /\ log = [warning |-> 0, decode |-> 0, fres |-> 0]
    /\ gpc = "none"
    /\ params = EmptyDict
    /\ continueparams = None
    /\ nextparams = EmptyDict
    /\ yieldval = EmptyDict
    /\ lastresp = [kind |-> "none"]
    /\ numrequests = 0
    /\ numresponses = 0
    /\ numconts = 0
    /\ yielded = <<>>
    /\ received = <<>>
    /\ pullrequests = 0
    /\ pullskipped = 0
    /\ textin \in Texts
    /\ textout = None
    /\ textfed = FALSE

\* getfirstparagraph(textin)
CallGetFirstParagraph ==
    /\ textout = None
    /\ textout' = Some(getfirstparagraph(textin))
    /\ UNCHANGED <<textin, textfed>>
    /\ UNCHANGED <<avars, gvars, hvars>>

\* getfirstparagraph applied to what it returned
CallAgain ==
    /\ textout # None
    /\ ~textfed
    /\ textin' = Val(textout)
    /\ textout' = Some(getfirstparagraph(Val(textout)))
    /\ textfed' = TRUE
    /\ UNCHANGED <<avars, gvars, hvars>>

TextNext ==
    \/ CallGetFirstParagraph
    \/ CallAgain

TextSpec == TextInit /\ [][TextNext]_vars

TypeOK ==
    /\ pc \in {"idle", "collect", "exists", "rendered"}
    /\ gpc \in {"none", "start", "loop", "httpget", "yield", "done", "raised"}
    /\ numresponses <= numrequests
    /\ numrequests <= MaxRequests

(***************************************************************************)
(* Properties                                                              *)
(***************************************************************************)
\* C1: when the responses of one logical query carry "continue" (and no
\* "error") N times and then a response carries none, exactly N+1 requests
\* were made; the first used params merged with {"continue": ""}, and every
\* later one params merged with the "continue" of the response before it.
C1_RequestChain ==
    /\ (lastresp.kind = "json" /\ "continue" \notin DOMAIN lastresp.result)
          => (numrequests = numconts + 1 /\ numresponses = numrequests)
    /\ gpc = "done" => numrequests = numconts + 1
    /\ gpc = "httpget" =>
          /\ numrequests = numconts + 1
          /\ numrequests = 1 => nextparams = Merge(params, "continue" :> "")
          /\ numrequests > 1 =>
                /\ lastresp.kind = "json"
                /\ "continue" \in DOMAIN lastresp.result
                /\ nextparams = Merge(params, lastresp.result["continue"])

C1_Witness ==
    /\ gpc = "done"
    /\ numrequests = 2
    /\ numconts = 1
    /\ nextparams = Merge(params, [action |-> "c1"])

\* C2: after a decoded response without "continue" no request is made: the
\* generator yields that response's "query" (if it has one and no "error")
\* and then ends.
C2_NoRequestAfterLast ==
    (lastresp.kind = "json" /\ "continue" \notin DOMAIN lastresp.result) =>
        /\ gpc \in {"yield", "loop", "done", "raised"}
        /\ numrequests = numresponses
        /\ "error" \notin DOMAIN lastresp.result =>
              /\ gpc # "raised"
              /\ "query" \in DOMAIN lastresp.result =>
                    (yielded # <<>> /\ yielded[Len(yielded)] = lastresp.result.query)
              /\ "query" \notin DOMAIN lastresp.result => gpc \in {"loop", "done"}

C2_Witness ==
    /\ gpc = "done"
    /\ lastresp.kind = "json"
    /\ "continue" \notin DOMAIN lastresp.result
    /\ "query" \in DOMAIN lastresp.result
    /\ numrequests = 2
    /\ Len(yielded) = 2

\* C3: a decoded response with "error" makes the generator raise: its
\* "query" is not yielded and no request follows, with or without
\* "continue" and "query" in that response.
C3_ErrorIsFatal ==
    (lastresp.kind = "json" /\ "error" \in DOMAIN lastresp.result) =>
        /\ gpc = "raised"
        /\ exc = "RemoteError"
        /\ numrequests = numresponses
        /\ yielded = received

C3_Witness ==
    /\ lastresp.kind = "json"
    /\ "error" \in DOMAIN lastresp.result
    /\ "continue" \in DOMAIN lastresp.result
    /\ "query" \in DOMAIN lastresp.result
    /\ gpc = "raised"
    /\ Len(yielded) = 1
    /\ numrequests = 2

\* C4: a decoded response with "warning" and without "error" is logged and
\* otherwise handled as if it had no warning: nothing is raised, its "query"
\* (if any) is yielded, and its "continue" (if any) is the continuation the
\* next request is built from.
C4_WarningStep ==
    (/\ numresponses' = numresponses + 1
     /\ lastresp'.kind = "json"
     /\ "warning" \in DOMAIN lastresp'.result
     /\ "error" \notin DOMAIN lastresp'.result)
    => /\ log'.warning = log.warning + 1
       /\ exc' = ""
       /\ "query" \in DOMAIN lastresp'.result =>
             (gpc' = "yield" /\ yieldval' = lastresp'.result.query
                /\ yielded' = Append(yielded, lastresp'.result.query))
       /\ "query" \notin DOMAIN lastresp'.result => (gpc' = "loop" /\ yielded' = yielded)
       /\ "continue" \in DOMAIN lastresp'.result =>
             continueparams' = Some(lastresp'.result["continue"])
       /\ "continue" \notin DOMAIN lastresp'.result => continueparams' = None

C4_WarningIsNotFatal == [][C4_WarningStep]_vars

C4_Witness ==
    /\ lastresp.kind = "json"
    /\ "warning" \in DOMAIN lastresp.result
    /\ "error" \notin DOMAIN lastresp.result
    /\ "continue" \in DOMAIN lastresp.result
    /\ "query" \in DOMAIN lastresp.result
    /\ gpc = "yield"
    /\ log.warning = 1
    /\ continueparams = Some(lastresp.result["continue"])

\* C5: the values yielded are the "query" values of the error-free
\* responses, in the order of the requests; a response without "query" adds
\* nothing and, if it has "continue", does not end the iteration.
C5_YieldedIsReceived ==
    /\ yielded = received
    /\ (/\ lastresp.kind = "json"
        /\ "error" \notin DOMAIN lastresp.result
        /\ "query" \notin DOMAIN lastresp.result
        /\ "continue" \in DOMAIN lastresp.result) => gpc \in {"loop", "httpget"}

C5_Witness ==
    /\ Len(yielded) = 2
    /\ yielded[1] # yielded[2]
    /\ gpc = "done"

\* C6 as stated: no pull makes more than one request.
C6_Original == pullrequests <= 1

\* C6 as amended: a pull makes at most one request more than the number of
\* responses without "query" it received, and a request after the first of a
\* pull follows a response that had "continue" and no "query".
C6_OneRequestPerPayload ==
    /\ pullrequests <= pullskipped + 1
    /\ gpc = "yield" => pullrequests = pullskipped + 1
    /\ (gpc = "httpget" /\ pullrequests > 1) =>
          /\ lastresp.kind = "json"
          /\ "query" \notin DOMAIN lastresp.result
          /\ "continue" \in DOMAIN lastresp.result

C6_Witness ==
    /\ gpc = "yield"
    /\ pullrequests = 2
    /\ pullskipped = 1

\* C7: in every request a key of the current continuation has the
\* continuation's value, every other key is a key of params with params'
\* value, and the current continuation is the latest response's "continue"
\* alone (the start continuation for the first request).
C7_ContinuationOverridesAndReplaces ==
    gpc = "httpget" =>
        /\ numrequests > 1 => (lastresp.kind = "json" /\ "continue" \in DOMAIN lastresp.result)
        /\ LET cur == IF numrequests = 1 THEN "continue" :> "" ELSE lastresp.result["continue"]
           IN  /\ DOMAIN nextparams = (DOMAIN params) \cup (DOMAIN cur)
               /\ \A k \in DOMAIN nextparams :
                     nextparams[k] = IF k \in DOMAIN cur THEN cur[k] ELSE params[k]

C7_Witness ==
    /\ gpc = "httpget"
    /\ numrequests = 2
    /\ lastresp.result["continue"] = [action |-> "c1"]
    /\ params.action = "query"
    /\ nextparams.action = "c1"
    /\ "continue" \notin DOMAIN nextparams

\* the latest exchange of the generator failed fatally
Fatal ==
    \/ lastresp.kind \in {"transport", "undecodable"}
    \/ (lastresp.kind = "json" /\ "error" \in DOMAIN lastresp.result)

\* C8: when an exchange of the collectextracts run fails fatally,
\* collectextracts returns nothing and getreadease renders the error
\* message, whatever had been collected before.
C8_NoPartialTable ==
    ("prop" \in DOMAIN params /\ Fatal) =>
        /\ resultlist = None
        /\ pc = "rendered"
        /\ body = [kind |-> "error", catname |-> catname, e |-> exc]
        /\ exc \in {"TransportError", "DecodeError", "RemoteError"}

C8_Witness ==
    /\ "prop" \in DOMAIN params
    /\ Fatal
    /\ Len(result) = 2
    /\ body.kind = "error"

\* C9: the rows under the table header are exactly the tuples of resultlist
\* that have a score, each once, in non-decreasing order of score, tuples of
\* equal score in their order in resultlist.
C9_Ranked ==
    body.kind = "table" =>
        LET ranked == Tail(body.rows)
            rl == Val(resultlist)
        IN  /\ \A i \in DOMAIN ranked : ranked[i][4] # None
            /\ \A i, j \in DOMAIN ranked : i < j => Val(ranked[i][4]) <= Val(ranked[j][4])
            /\ \A sc \in Scores :
                  SelectSeq(ranked, LAMBDA t : t[4] = Some(sc)) = SelectSeq(rl, LAMBDA t : t[4] = Some(sc))
            /\ (\A i \in DOMAIN rl : rl[i][4] = None) => ranked = <<>>

C9_Witness ==
    /\ body.kind = "table"
    /\ Len(Val(resultlist)) = 3
    /\ Len(body.rows) = 3
    /\ body.rows[2][4] = body.rows[3][4]
    /\ body.rows[2][1] # body.rows[3][1]
    /\ Val(resultlist)[1][4] = None

\* the number of fragments yielded so far whose entry for page k has "extract"
ExtractCount(k) ==
    Cardinality({i \in DOMAIN yielded :
        /\ "pages" \in DOMAIN yielded[i]
        /\ k \in DOMAIN yielded[i].pages
        /\ "extract" \in DOMAIN yielded[i].pages[k]})

\* the number of tuples of result for page k
TupleCount(k) == Cardinality({i \in DOMAIN result : result[i][1] = k})

\* C10 as stated: no page id is in two tuples of the returned list.
C10_Original ==
    resultlist # None =>
        \A i, j \in DOMAIN Val(resultlist) : i # j => Val(resultlist)[i][1] # Val(resultlist)[j][1]

\* C10 as amended: the list holds one tuple of a page id for every fragment
\* whose entry for that page has "extract", so an id is in at most one tuple
\* for each such fragment.
C10_OneTuplePerFragmentEntry ==
    "prop" \in DOMAIN params =>
        /\ \A k \in {"1", "2"} : TupleCount(k) <= ExtractCount(k)
        /\ resultlist # None =>
              (Val(resultlist) = result /\ \A k \in {"1", "2"} : TupleCount(k) = ExtractCount(k))

C10_Witness ==
    /\ "prop" \in DOMAIN params
    /\ resultlist # None
    /\ TupleCount("1") = 2
    /\ TupleCount("2") = 1

\* C11 as stated: with one fragment, checkcategoryexists returns true
\* exactly when no page entry of the fragment has "missing".
C11_Original ==
    categoryexists # None =>
        (Val(categoryexists) <=>
            \A k \in DOMAIN queryresults[1].pages : "missing" \notin DOMAIN queryresults[1].pages[k])

\* C11 as amended: with one fragment, checkcategoryexists returns whether
\* one page entry of the fragment (the one values()[0] gives) is without
\* "missing"; this is the stated result when the fragment has one entry or
\* its entries agree.
C11_FirstEntryDecides ==
    categoryexists # None =>
        /\ Len(queryresults) = 1
        /\ LET pages == queryresults[1].pages
               unmarked == {k \in DOMAIN pages : "missing" \notin DOMAIN pages[k]}
           IN  /\ DOMAIN pages # {}
               /\ unmarked = DOMAIN pages => categoryexists = Some(TRUE)
               /\ unmarked = {} => categoryexists = Some(FALSE)

C11_Witness ==
    /\ categoryexists = Some(TRUE)
    /\ Cardinality(DOMAIN queryresults[1].pages) = 2
    /\ \E k \in DOMAIN queryresults[1].pages : "missing" \in DOMAIN queryresults[1].pages[k]

\* C12: checkcategoryexists returns a value only when the generator yielded
\* exactly one fragment; with no fragment or more than one it raises
\* AssertionError, before any index is taken.
C12_ExactlyOneFragment ==
    ("titles" \in DOMAIN params /\ gpc = "done" /\ pc = "rendered") =>
        /\ queryresults = yielded
        /\ categoryexists # None => Len(yielded) = 1
        /\ Len(yielded) # 1 =>
              /\ categoryexists = None
              /\ exc = "AssertionError"
              /\ body = [kind |-> "error", catname |-> catname, e |-> "AssertionError"]

C12_Witness ==
    /\ "titles" \in DOMAIN params
    /\ pc = "rendered"
    /\ gpc = "done"
    /\ Len(yielded) = 2
    /\ exc = "AssertionError"

\* the keys of the i-th yielded fragment whose entry has "extract"
WithExtract(i) ==
    IF "pages" \in DOMAIN yielded[i]
    THEN {k \in DOMAIN yielded[i].pages : "extract" \in DOMAIN yielded[i].pages[k]}
    ELSE {}

RECURSIVE TuplesBefore(_)
\* the number of entries with "extract" in the fragments before the i-th
TuplesBefore(i) == IF i = 1 THEN 0 ELSE TuplesBefore(i - 1) + Cardinality(WithExtract(i - 1))

\* C13: the list collectextracts returns is, fragment after fragment in the
\* order of arrival, one tuple (id, title, first paragraph, score) for each
\* page entry of the fragment that has "extract" and none for the others;
\* the score is absent when the extract is empty.
C13_OneTuplePerExtract ==
    ("prop" \in DOMAIN params /\ gpc = "done") =>
        /\ Len(result) = TuplesBefore(Len(yielded) + 1)
        /\ \A i \in DOMAIN yielded :
              LET block == (TuplesBefore(i) + 1)..TuplesBefore(i + 1)
              IN  /\ {result[j][1] : j \in block} = WithExtract(i)
                  /\ \A j \in block :
                        LET v == yielded[i].pages[result[j][1]]
                        IN  /\ result[j][2] = v.title
                            /\ result[j][3] = getfirstparagraph(v.extract)
                            /\ result[j][4] \in {None} \cup {Some(sc) : sc \in Scores}
                            /\ v.extract = <<>> => result[j][4] = None

C13_Witness ==
    /\ "prop" \in DOMAIN params
    /\ gpc = "done"
    /\ resultlist = Some(result)
    /\ Len(yielded) = 2
    /\ Len(result) = 3
    /\ "extract" \notin DOMAIN yielded[2].pages["1"]
    /\ \E j \in DOMAIN result : result[j][3] = <<>> /\ result[j][4] = None
    /\ \E j \in DOMAIN result : result[j][3] = <<"a">> /\ result[j][4] # None

\* the tuples of result whose first paragraph is not blank and whose score is absent
FailedScores ==
    {j \in DOMAIN result :
        /\ \E i \in DOMAIN result[j][3] : result[j][3][i] \notin {" ", "\n"}
        /\ result[j][4] = None}

\* C14: a first paragraph that is empty after trimming gets an absent score
\* and no warning (textstat is not called for it); a failure of textstat gives
\* an absent score and one warning; no failure of the scoring leaves
\* trygetreadingease, so the tuple is appended and collectextracts goes on.
C14_ScoringNeverFails ==
    /\ \A j \in DOMAIN result :
          (\A i \in DOMAIN result[j][3] : result[j][3][i] \in {" ", "\n"}) => result[j][4] = None
    /\ log.fres = Cardinality(FailedScores)
    /\ exc \in {"", "TransportError", "DecodeError", "RemoteError", "KeyError",
                "AssertionError", "IndexError"}

C14_Witness ==
    /\ resultlist = Some(result)
    /\ Len(result) = 3
    /\ FailedScores = {1}
    /\ result[2][3] = <<>>
    /\ result[3][4] = Some(10)
    /\ log.fres = 1
    /\ body.kind = "table"

\* C15: when httpget raises or the body does not decode, the generator
\* raises that failure at once: the request is not made again, no other
\* request follows, nothing is yielded for the exchange, and an undecodable
\* body has been logged by the time the failure is raised.
C15_ExchangeFailureIsFatal ==
    lastresp.kind \in {"transport", "undecodable"} =>
        /\ gpc = "raised"
        /\ pc = "rendered"
        /\ numrequests = numresponses
        /\ yielded = received
        /\ exc = (IF lastresp.kind = "transport" THEN "TransportError" ELSE "DecodeError")
        /\ body = [kind |-> "error", catname |-> catname, e |-> exc]
        /\ log.decode = (IF lastresp.kind = "undecodable" THEN 1 ELSE 0)

C15_Witness ==
    /\ lastresp.kind = "undecodable"
    /\ gpc = "raised"
    /\ numrequests = 2
    /\ Len(yielded) = 1
    /\ log.decode = 1

\* C16: the body is "No such category" exactly when collectextracts
\* returned an empty list and checkcategoryexists returned false; the
\* existence query is made only after an empty list; and a category that
\* exists, or has pages, but has no tuple with a score gets a table that is
\* the header row alone.
C16_NoSuchCategory ==
    /\ body.kind = "nosuch" <=>
          (pc = "rendered" /\ resultlist = Some(<<>>) /\ categoryexists = Some(FALSE))
    /\ body.kind = "nosuch" => body.catname = catname
    /\ ("titles" \in DOMAIN params \/ categoryexists # None) => resultlist = Some(<<>>)
    /\ (/\ pc = "rendered"
        /\ exc = ""
        /\ \A j \in DOMAIN Val(resultlist) : Val(resultlist)[j][4] = None
        /\ (Val(resultlist) # <<>> \/ categoryexists = Some(TRUE)))
       => body = [kind |-> "table", rows |-> <<tableheader>>]

C16_Witness ==
    /\ pc = "rendered"
    /\ resultlist = Some(<<>>)
    /\ categoryexists = Some(TRUE)
    /\ body = [kind |-> "table", rows |-> <<tableheader>>]


\* C17: once a generator exists and the remote stops announcing more results
\* (or answers with an error, or an exchange fails), the consumer that keeps
\* pulling reaches the end of the sequence or a failure; the only way out
\* before that is the consumer's own KeyError, after which it pulls no more.
\* And the generator is never done while the latest response carried
\* "continue", the empty mapping included.
C17_EndsOnlyWithoutContinue ==
    /\ (gpc = "start") ~> (gpc \in {"done", "raised"} \/ exc = "KeyError")
    /\ [](gpc = "done" =>
            /\ lastresp.kind = "json"
            /\ "continue" \notin DOMAIN lastresp.result
            /\ "error" \notin DOMAIN lastresp.result)

\* the first response carried the empty "continue" (the second request is
\* params alone), and the sequence ended after the second response
C17_Witness ==
    /\ gpc = "done"
    /\ numrequests = 2
    /\ numconts = 1
    /\ nextparams = params


\* C18: the mapping the caller passed to iterwikiquery is never modified: at
\* every point of the iteration it is the mapping collectextracts or
\* checkcategoryexists built, whatever "continue" mappings came back, and no
\* step of a running generator changes it.
C18_ParamsUntouched ==
    /\ [](gpc # "none" =>
            params = IF resultlist # None /\ Val(resultlist) = <<>>
                     THEN ExistsParams(catname)
                     ELSE CollectParams(catname))
    /\ [][gpc \notin {"none", "done"} => params' = params]_vars

\* the second request went out with the caller's "action" overridden by the
\* remote's continuation, and the caller's mapping still has its own
C18_Witness ==
    /\ numrequests = 2
    /\ gpc = "httpget"
    /\ "action" \in DOMAIN nextparams
    /\ nextparams.action = "c1"
    /\ params = CollectParams(catname)
    /\ params.action # "c1"

\* C20: a decoded response with both "error" and "warning" makes the
\* generator fail with the remote error in that very step: the warning is not
\* logged, nothing is yielded, continueparams and the request count stay as
\* they were, and no request follows.
C20_ErrorBeforeWarning ==
    /\ [][(/\ gpc = "httpget"
           /\ lastresp'.kind = "json"
           /\ "error" \in DOMAIN lastresp'.result
           /\ "warning" \in DOMAIN lastresp'.result)
          => (/\ gpc' = "raised"
              /\ exc' = "RemoteError"
              /\ log' = log
              /\ yielded' = yielded
              /\ yieldval' = yieldval
              /\ continueparams' = continueparams
              /\ numrequests' = numrequests)]_vars
    /\ [][gpc = "raised" => (gpc' = "raised" /\ numrequests' = numrequests /\ yielded' = yielded)]_vars

\* the second response carried "error", "warning", "continue" and "query";
\* the first one had been yielded
C20_Witness ==
    /\ gpc = "raised"
    /\ exc = "RemoteError"
    /\ numrequests = 2
    /\ Len(yielded) = 1
    /\ lastresp.kind = "json"
    /\ {"error", "warning", "continue", "query"} \subseteq DOMAIN lastresp.result
    /\ log.warning = 0


\* C19: getfirstparagraph returns what precedes the first newline of its
\* argument, or the whole argument when there is no newline; the result has
\* no newline, is empty for an argument that is empty or begins with a
\* newline, and is returned unchanged when the function is applied to it.
C19_FirstParagraph ==
    textout # None =>
        LET out == Val(textout)
        IN  /\ \A i \in DOMAIN out : out[i] # "\n"
            /\ Len(out) <= Len(textin)
            /\ out = SubSeq(textin, 1, Len(out))
            /\ Len(out) < Len(textin) => textin[Len(out) + 1] = "\n"
            /\ (textin = <<>> \/ textin[1] = "\n") => out = <<>>
            /\ textfed => out = textin

\* the argument had two newlines and text before, between and after them
C19_Witness ==
    /\ textin = <<"a", "\n", " ", "\n">>
    /\ textout = Some(<<"a">>)
    /\ ~textfed

\* the result of such a call was passed in again and came back unchanged
C19_WitnessAgain ==
    /\ textfed
    /\ textin = <<"a", " ">>
    /\ textout = Some(textin)

====
